---- MODULE Spec2Model ----
(***************************************************************************)
(* State-machine model of downloadDocuments.py: the Graph token cache      *)
(* (get_graph_token), the permission normaliser (get_file_permissions)     *)
(* and the site / library / folder walk (sync_all_sites, sync_site,        *)
(* sync_library_children, uploadData).                                     *)
(***************************************************************************)
EXTENDS Integers, Sequences, FiniteSets, TLC

VARIABLES
    now,          \* datetime.now(timezone.utc), in clock units since the start
    ticks,        \* number of clock advances so far (bounds the clock)
    token_cache,  \* _token_cache: [token, expires_at]
    tcall,        \* the last call of get_graph_token: what it saw and did
    permissions,  \* the "value" list the permissions endpoint would answer
    policy,       \* what the last call of get_file_permissions did
    pc,           \* where sync_all_sites / sync_site stand
    tree,         \* the folder tree the remote service holds in every library
    sites,        \* sync_all_sites: the site list
    si,           \* sync_all_sites: index of the site of the for loop
    libraries,    \* sync_site: the libraries of the current site
    li,           \* sync_site: index of the library of the for loop
    stack,        \* the active calls of sync_library_children, outermost first
    rootKind,     \* the file system at "RAG_DATA_ROOT": "absent", "dir" or "file"
    rootContent,  \* what the file at "RAG_DATA_ROOT" holds
    failures,     \* number of environment faults injected so far
    attempted,    \* history: the sites sync_site was called for, in order
    libsSynced,   \* history: the <<site, library>> walks started, in order
    trace         \* history: the requests and files of the current library walk

tokenVars == <<now, ticks, token_cache, tcall>>
permVars == <<permissions, policy>>
walkVars == <<pc, tree, sites, si, libraries, li, stack, rootKind, rootContent,
              failures, attempted, libsSynced, trace>>
vars == <<tokenVars, permVars, walkVars>>

---------------------------------------------------------------------------
(* Clock and token cache                                                   *)

\* Resolution of the model clock: units per second (datetime has 10^6).
UnitsPerSec == 2
\* timedelta(seconds=3300)
CacheSeconds == 3300
\* "tokens expire after 60 minutes"
LifetimeSeconds == 3600
\* Bound on the number of clock advances.
MaxTicks == 3

CacheUnits == CacheSeconds * UnitsPerSec

\* None, for the token and for the expiry
NoToken == -1
NoTime == -1

\* A token is identified by the instant of the call that acquired it.
NewToken(t) == t

\* now.replace(microsecond=0): the instant truncated to the whole second
ReplaceMicrosecondZero(t) == t - (t % UnitsPerSec)

\* A plausible slip: the token is still handed out at its expiry instant.
CacheValid_inclusive(cache, t) ==
    /\ cache.token # NoToken
    /\ cache.expires_at # NoTime
    /\ t <= cache.expires_at

\* line 44: the cached token is still valid at instant t
CacheValid(cache, t) ==
    /\ cache.token # NoToken
    /\ cache.expires_at # NoTime
    /\ t < cache.expires_at

\* lines 59-60: the cache after an acquisition at instant t
CacheAfterAcquire(t) ==
    [token |-> NewToken(t),
     expires_at |-> ReplaceMicrosecondZero(t) + CacheUnits]

\* get_graph_token() called at instant t with the given cache; endpointOk is
\* whether the POST to the token endpoint (were it made) succeeds.
\*   raised : the call raises (raise_for_status / requests error)
\*   token  : the token returned
\*   cache  : the cache after the call
\*   posted : whether the token endpoint was contacted
get_graph_token(cache, t, endpointOk) ==
    IF CacheValid(cache, t)
    THEN [raised |-> FALSE, token |-> cache.token, cache |-> cache, posted |-> FALSE]
    ELSE IF endpointOk
         THEN [raised |-> FALSE, token |-> NewToken(t),
               cache |-> CacheAfterAcquire(t), posted |-> TRUE]
         ELSE [raised |-> TRUE, token |-> NoToken, cache |-> cache, posted |-> TRUE]

NoCall == [at |-> NoTime, before |-> [token |-> NoToken, expires_at |-> NoTime],
           raised |-> FALSE, token |-> NoToken, posted |-> FALSE]

\* _token_cache = {"token": None, "expires_at": None}
EmptyCache == [token |-> NoToken, expires_at |-> NoTime]

\* The amounts by which the clock advances between two steps of the program.
TickSteps == {1, CacheUnits - 1, CacheUnits}

\* Time passes.
Tick ==
    /\ ticks < MaxTicks
    /\ \E d \in TickSteps : now' = now + d
    /\ ticks' = ticks + 1
    /\ UNCHANGED <<token_cache, tcall>>

\* A caller asks for a token; the endpoint answers or fails.
CallGetToken ==
    \E endpointOk \in BOOLEAN :
        LET r == get_graph_token(token_cache, now, endpointOk) IN
        /\ token_cache' = r.cache
        /\ tcall' = [at |-> now, before |-> token_cache, raised |-> r.raised,
                     token |-> r.token, posted |-> r.posted]
        /\ UNCHANGED <<now, ticks>>


---------------------------------------------------------------------------
(* Permission normalisation: get_file_permissions                          *)

\* Strings are sequences of character codes: "A" = <<65>>, "a" = <<97>>.
\* str.lower() on them
Lower(str) ==
    [i \in 1..Len(str) |-> IF str[i] \in 65..90 THEN str[i] + 32 ELSE str[i]]

\* A falsy string (None or ""): `if user_email:` skips it
NoStr == <<>>

\* An identity set (grantedToV2 / grantedTo):
\*   present : the grant has the key
\*   user    : has a "user" entry;  email : its "email" (NoStr when missing)
\*   group   : has a "group" entry; gid, gemail : its "id" and "email"
Identity(user, email, group, gid, gemail) ==
    [present |-> TRUE, user |-> user, email |-> email,
     group |-> group, gid |-> gid, gemail |-> gemail]

NoIdentity ==
    [present |-> FALSE, user |-> FALSE, email |-> NoStr,
     group |-> FALSE, gid |-> NoStr, gemail |-> NoStr]

\* One entry of the "value" list:
\*   link     : "absent" (no "link" key), "null" ("link": null), "noscope",
\*              or the link's scope
\*   v2       : "grantedToV2";  legacy : "grantedTo"
\*   inherited: "absent", "empty" ("inheritedFrom": {} is falsy) or "set"
Grant(link, v2, legacy, inherited) ==
    [link |-> link, v2 |-> v2, legacy |-> legacy, inherited |-> inherited]

\* Bound on the length of the grant list.
MaxGrants == 2

EmailA == <<65>>
Emaila == <<97>>
Emailb == <<98>>
GroupIdG == <<71>>
GroupMailg == <<103>>
GroupMailH == <<72>>

UserIdentities ==
    { Identity(TRUE, e, FALSE, NoStr, NoStr) : e \in {EmailA, Emaila, Emailb, NoStr} }

GroupIdentities ==
    { Identity(FALSE, NoStr, TRUE, g[1], g[2]) :
        g \in {<<GroupIdG, NoStr>>, <<NoStr, GroupMailH>>, <<GroupIdG, GroupMailg>>} }
    \cup {Identity(TRUE, Emailb, TRUE, GroupIdG, GroupMailH)}

\* The grants the permissions endpoint may answer with.
Grants ==
    \* sharing links, with and without a principal and an inheritance source
    { Grant(l, v, NoIdentity, i) :
        l \in {"anonymous", "organization", "users", "noscope"},
        v \in {NoIdentity, Identity(TRUE, EmailA, TRUE, GroupIdG, NoStr)},
        i \in {"absent", "set"} }
    \* a malformed entry: "link": null
    \cup {Grant("null", NoIdentity, NoIdentity, "absent")}
    \* principal grants in the current shape
    \cup { Grant("absent", v, NoIdentity, "absent") : v \in UserIdentities \cup GroupIdentities }
    \* principal grants in the legacy shape
    \cup { Grant("absent", NoIdentity, v, "absent") :
             v \in {Identity(TRUE, EmailA, FALSE, NoStr, NoStr),
                    Identity(FALSE, NoStr, TRUE, GroupIdG, GroupMailH),
                    Identity(TRUE, Emailb, TRUE, GroupIdG, NoStr)} }
    \* both shapes in one grant
    \cup {Grant("absent", Identity(FALSE, NoStr, TRUE, GroupIdG, NoStr),
                Identity(TRUE, Emaila, FALSE, NoStr, NoStr), "absent")}
    \* inheritance markers on a principal grant and on a bare grant
    \cup { Grant("absent", v, NoIdentity, i) :
             v \in {NoIdentity, Identity(TRUE, Emaila, FALSE, NoStr, NoStr)},
             i \in {"empty", "set"} }

GrantLists == UNION { [1..n -> Grants] : n \in 0..MaxGrants }

\* x.append(v) when v is truthy
AppendIf(list, str) == IF str # NoStr THEN Append(list, str) ELSE list

\* A plausible slip: the user email is stored as received, not lower-cased.
AddPrincipal_as_received(acc, perm) ==
    IF perm.v2.present
    THEN LET g == perm.v2
             users == IF g.user THEN AppendIf(acc.allowed_users, g.email)
                      ELSE acc.allowed_users
             groups == IF g.group
                       THEN AppendIf(AppendIf(acc.allowed_groups, g.gid), Lower(g.gemail))
                       ELSE acc.allowed_groups
         IN [acc EXCEPT !.allowed_users = users, !.allowed_groups = groups]
    ELSE IF perm.legacy.present
    THEN LET g == perm.legacy
         IN [acc EXCEPT !.allowed_users =
                 IF g.user THEN AppendIf(acc.allowed_users, g.email)
                 ELSE acc.allowed_users]
    ELSE acc

\* lines 156-180: the identifiers one grant adds to the two lists
AddPrincipal(acc, perm) ==
    IF perm.v2.present
    THEN LET g == perm.v2
             users == IF g.user THEN AppendIf(acc.allowed_users, Lower(g.email))
                      ELSE acc.allowed_users
             groups == IF g.group
                       THEN AppendIf(AppendIf(acc.allowed_groups, g.gid), Lower(g.gemail))
                       ELSE acc.allowed_groups
         IN [acc EXCEPT !.allowed_users = users, !.allowed_groups = groups]
    ELSE IF perm.legacy.present
    THEN LET g == perm.legacy
         IN [acc EXCEPT !.allowed_users =
                 IF g.user THEN AppendIf(acc.allowed_users, Lower(g.email))
                 ELSE acc.allowed_users]
    ELSE acc

\* line 151: the grant is a link shared with anyone / the organisation
IsPublicLink(perm) == perm.link \in {"anonymous", "organization"}

\* lines 149-180: the loop over the grants. acc.error: an exception was raised
\* (perm.get("link", {}) is None for "link": null, and None has no .get).
RECURSIVE ScanGrants(_, _)
ScanGrants(perms, acc) ==
    IF perms = <<>> \/ acc.error THEN acc
    ELSE LET perm == Head(perms) IN
         IF perm.link = "null" THEN [acc EXCEPT !.error = TRUE]
         ELSE IF IsPublicLink(perm)
         THEN ScanGrants(Tail(perms), [acc EXCEPT !.is_public = TRUE])
         ELSE ScanGrants(Tail(perms), AddPrincipal(acc, perm))

\* A plausible slip: the empty grant list is not taken as inherited.
HasInherited_nonempty_only(perms) ==
    \E i \in 1..Len(perms) : perms[i].inherited = "set"

\* lines 183-185: has_inherited
HasInherited(perms) ==
    Len(perms) = 0 \/ \E i \in 1..Len(perms) : perms[i].inherited = "set"

\* list(set(xs)): the distinct elements (here in order of first occurrence)
RECURSIVE ListSet(_)
ListSet(xs) ==
    IF xs = <<>> THEN <<>>
    ELSE LET rest == ListSet(SubSeq(xs, 1, Len(xs) - 1))
             last == xs[Len(xs)]
         IN IF \E i \in 1..Len(rest) : rest[i] = last THEN rest ELSE Append(rest, last)

\* lines 196-202: the default returned by the except branch
DefaultPolicy ==
    [raised |-> FALSE, allowedUsers |-> <<>>, allowedGroups |-> <<>>,
     hasInheritedPermissions |-> TRUE, isPublicWithinOrg |-> FALSE,
     permissionError |-> TRUE]

\* What escapes when get_graph_token raises on line 137, outside the try.
RaisedPolicy ==
    [raised |-> TRUE, allowedUsers |-> <<>>, allowedGroups |-> <<>>,
     hasInheritedPermissions |-> FALSE, isPublicWithinOrg |-> FALSE,
     permissionError |-> FALSE]

\* get_file_permissions: tokenRaised is whether get_graph_token raised on
\* line 137, fetchOk whether the GET of the grant list succeeded, perms the
\* "value" list of its answer.
get_file_permissions(tokenRaised, fetchOk, perms) ==
    IF tokenRaised THEN RaisedPolicy
    ELSE IF ~fetchOk THEN DefaultPolicy
    ELSE LET acc == ScanGrants(perms, [allowed_users |-> <<>>, allowed_groups |-> <<>>,
                                       is_public |-> FALSE, error |-> FALSE])
         IN IF acc.error THEN DefaultPolicy
            ELSE [raised |-> FALSE,
                  allowedUsers |-> ListSet(acc.allowed_users),
                  allowedGroups |-> ListSet(acc.allowed_groups),
                  hasInheritedPermissions |-> HasInherited(perms),
                  isPublicWithinOrg |-> acc.is_public,
                  permissionError |-> FALSE]

NoPolicy == [called |-> FALSE, fetched |-> FALSE, result |-> RaisedPolicy]

\* The endpoint's answer is any list of grants; nothing has been called yet.
InitPerm ==
    /\ now = 0
    /\ ticks = 0
    /\ token_cache = EmptyCache
    /\ tcall = NoCall
    /\ permissions \in GrantLists
    /\ policy = NoPolicy
    /\ pc = "idle"
    /\ tree = [folders |-> {}, children |-> <<>>]
    /\ sites = <<>>
    /\ si = 0
    /\ libraries = <<>>
    /\ li = 0
    /\ stack = <<>>
    /\ rootKind = "absent"
    /\ rootContent = <<>>
    /\ failures = 0
    /\ attempted = <<>>
    /\ libsSynced = <<>>
    /\ trace = <<>>

\* A caller resolves the permissions of an item.
ResolvePermissions ==
    /\ ~policy.called
    /\ \E endpointOk \in BOOLEAN, fetchOk \in BOOLEAN :
         LET t == get_graph_token(token_cache, now, endpointOk) IN
         /\ token_cache' = t.cache
         /\ tcall' = [at |-> now, before |-> token_cache, raised |-> t.raised,
                      token |-> t.token, posted |-> t.posted]
         /\ policy' = [called |-> TRUE, fetched |-> ~t.raised /\ fetchOk,
                       result |-> get_file_permissions(t.raised, fetchOk, permissions)]
    /\ UNCHANGED <<now, ticks, permissions>>
    /\ UNCHANGED walkVars

\* The token cache is warmed by an earlier caller of get_graph_token.
PermWarmToken ==
    /\ ~policy.called
    /\ CallGetToken
    /\ UNCHANGED permVars
    /\ UNCHANGED walkVars

PermNext == ResolvePermissions \/ PermWarmToken

SpecPerm == InitPerm /\ [][PermNext]_vars

---------------------------------------------------------------------------
(* The walk: sync_all_sites, sync_site, sync_library_children, uploadData  *)

\* Bounds: sites discovered, libraries per site, injected environment faults,
\* clock advances during a run.
MaxSites == 2
MaxLibs == 2
MaxFailures == 2
MaxWalkTicks == 1

LifetimeUnits == LifetimeSeconds * UnitsPerSec

\* Folder trees the remote service may hold: the children listing of every
\* folder, in listing order ("root" is the library root, item_id None).
\* A parent with three sub-folders:
TreeA ==
    [folders |-> {"root", "d1", "d2", "d3"},
     children |-> [root |-> <<"d1", "d2", "d3", "f4">>,
                   d1 |-> <<"f1">>, d2 |-> <<"f2">>, d3 |-> <<"f3">>]]

\* Nested folders with files before and after them:
TreeB ==
    [folders |-> {"root", "d1", "d2"},
     children |-> [root |-> <<"f1", "d1", "f4">>,
                   d1 |-> <<"d2", "f3">>, d2 |-> <<"f2">>]]

\* An empty folder:
TreeC ==
    [folders |-> {"root", "d1"},
     children |-> [root |-> <<"d1", "f1">>, d1 |-> <<>>]]

Trees == {TreeA, TreeB, TreeC}

\* "folder" in item
IsFolder(name) == name \in tree.folders

\* r.json().get("value", []) of a children listing
Children(folder) == tree.children[folder]

\* site_info["siteName"], library["name"]
SiteName(site) == <<"site", site>>
LibraryName(lib) == <<"library", lib>>

\* directoryName = "RAG_DATA_ROOT"
directoryName == <<"RAG_DATA_ROOT">>

\* f"{relative_path}/{item['name']}".lstrip("/")
CurrentPath(relative_path, name) == relative_path \o <<name>>

\* blob_base_path = f"{site_name}/{library_name}"; file_blob_path + ".meta.json"
MetaBlobPath(site, lib, current_path) ==
    <<SiteName(site), LibraryName(lib), current_path, ".meta.json">>

\* The remote service rejects a request whose token is past its lifetime.
TokenDead(tok) == now - tok >= LifetimeUnits

\* requests.get(...); raise_for_status() raises
RequestFails(tok, reqOk) == TokenDead(tok) \/ ~reqOk

\* The environment faults a step injects (a dead token is no injected fault).
TokenFault(t) == IF t.raised THEN 1 ELSE 0
RequestFault(tok, reqOk) == IF ~TokenDead(tok) /\ ~reqOk THEN 1 ELSE 0

\* for site_id in sites: the loop goes to the next site, or ends
SiteLoopNext ==
    IF si + 1 > Len(sites)
    THEN [pc |-> "done", si |-> si + 1, li |-> 0]
    ELSE [pc |-> "site_info", si |-> si + 1, li |-> 0]

\* for library in libraries: the loop goes to the next library, or sync_site
\* returns
LibraryLoopNext ==
    IF li + 1 > Len(libraries)
    THEN SiteLoopNext
    ELSE [pc |-> "library", si |-> si, li |-> li + 1]

\* A plausible slip: no try around sync_site, the exception ends the run.
sync_all_sites_except_unguarded == [pc |-> "crashed", si |-> si, li |-> 0]

\* lines 492-494: except Exception in sync_all_sites: continue
sync_all_sites_except == SiteLoopNext

\* A plausible slip: no try around the library walk, the exception leaves
\* sync_site.
sync_site_except_unguarded == sync_all_sites_except

\* lines 468-470: except Exception in sync_site: continue
sync_site_except == LibraryLoopNext

\* A plausible slip: the listing error is re-raised.
listing_except_reraised == "raise"

\* lines 371-373: except Exception around the listing: return
listing_except == "return"

Goto(c) ==
    /\ pc' = c.pc
    /\ si' = c.si
    /\ li' = c.li
    /\ libraries' = IF c.pc \in {"library", "walk"} THEN libraries ELSE <<>>

\* A plausible slip: the loop index steps over the sibling after a finished
\* child.
NextItem_skips(stk) ==
    IF stk = <<>> THEN stk ELSE [stk EXCEPT ![Len(stk)].idx = @ + 2]

\* for item in items: the innermost call moves to its next item
NextItem(stk) ==
    IF stk = <<>> THEN stk ELSE [stk EXCEPT ![Len(stk)].idx = @ + 1]

\* The calls whose loop is exhausted return, each to its caller's loop.
RECURSIVE Unwind(_)
Unwind(stk) ==
    IF stk = <<>> THEN stk
    ELSE LET top == stk[Len(stk)] IN
         IF top.idx > Len(top.items)
         THEN Unwind(NextItem(SubSeq(stk, 1, Len(stk) - 1)))
         ELSE stk

\* The walk goes on with call stack stk; an empty stack is the return of the
\* outermost call to sync_site's loop.
WalkContinues(stk) ==
    LET rest == Unwind(stk) IN
    /\ stack' = rest
    /\ IF rest = <<>> THEN Goto(LibraryLoopNext)
       ELSE Goto([pc |-> "walk", si |-> si, li |-> li])

\* An exception leaves every active call of sync_library_children and is
\* caught in sync_site.
WalkRaises ==
    /\ stack' = <<>>
    /\ Goto(sync_site_except)

Event(op, node, res, at) == [op |-> op, node |-> node, res |-> res, at |-> at]

\* sync_library_children(item_id = folder, relative_path), called from the
\* loop of the innermost call of stk (or from sync_site when stk is empty):
\* lines 359-373, then the loop.
EnterFolder(stk, folder, relative_path, log) ==
    \E endpointOk \in BOOLEAN, reqOk \in BOOLEAN :
        LET t == get_graph_token(token_cache, now, endpointOk) IN
        /\ failures + TokenFault(t) + RequestFault(t.token, reqOk) <= MaxFailures
        /\ t.raised => reqOk
        /\ failures' = failures + TokenFault(t) + RequestFault(t.token, reqOk)
        /\ token_cache' = t.cache
        /\ tcall' = [at |-> now, before |-> token_cache, raised |-> t.raised,
                     token |-> t.token, posted |-> t.posted]
        /\ IF t.raised
           THEN /\ trace' = Append(log, Event("token", folder, "raised", <<>>))
                /\ WalkRaises
           ELSE IF RequestFails(t.token, reqOk)
           THEN /\ trace' = Append(log, Event("list", folder, "failed", <<>>))
                /\ IF listing_except = "return"
                   THEN WalkContinues(NextItem(stk))
                   ELSE WalkRaises
           ELSE /\ trace' = Append(log, Event("list", folder, "ok", <<>>))
                /\ WalkContinues(Append(stk,
                       [folder |-> folder, relative_path |-> relative_path,
                        items |-> Children(folder), idx |-> 1,
                        headers |-> t.token]))

\* build_metadata: the fields of the record the claims read
build_metadata(item, current_path, extracted_text, site, lib) ==
    [fileName |-> item, sharePointPath |-> current_path,
     siteName |-> SiteName(site), libraryName |-> LibraryName(lib),
     hasExtractedText |-> extracted_text]

\* uploadData (lines 399-426), with the directory check that precedes it
\* (lines 387-390). kind is what "RAG_DATA_ROOT" is when the file is reached;
\* fetchOk, textOk, writeOk are the environment's answers: the content GET
\* succeeds, extract_text returns text (it returns None on any decoding
\* error), open() succeeds on a regular file.
\*   res     : how the call ended
\*   at      : the path opened for writing
\*   kind    : what "RAG_DATA_ROOT" is afterwards
\*   content : what the file at "RAG_DATA_ROOT" holds afterwards
uploadData(item, current_path, headers, kind, content, fetchOk, textOk, writeOk) ==
    LET made == IF kind = "absent" THEN "dir" ELSE kind
    IN IF RequestFails(headers, fetchOk)
       THEN [res |-> "fetch_failed", at |-> <<>>, kind |-> made, content |-> content]
       ELSE IF made = "dir" \/ ~writeOk
       THEN [res |-> "write_failed", at |-> directoryName, kind |-> made,
             content |-> content]
       ELSE [res |-> IF textOk THEN "written" ELSE "written_notext",
             at |-> directoryName, kind |-> made,
             content |-> <<build_metadata(item, current_path, textOk, sites[si],
                                          libraries[li])>>]

\* The environment faults uploadData meets.
UploadFaults(headers, kind, fetchOk, textOk, writeOk) ==
    IF RequestFails(headers, fetchOk) THEN RequestFault(headers, fetchOk)
    ELSE (IF textOk THEN 0 ELSE 1)
         + (IF kind = "file" /\ ~writeOk THEN 1 ELSE 0)

Running == pc \in {"start", "site_info", "libraries", "library", "walk"}

\* The process starts: nothing cached, nothing synced; "RAG_DATA_ROOT" is
\* whatever the working directory holds.
Init ==
    /\ now = 0
    /\ ticks = 0
    /\ token_cache = EmptyCache
    /\ tcall = NoCall
    /\ permissions = <<>>
    /\ policy = NoPolicy
    /\ pc = "start"
    /\ tree \in Trees
    /\ sites = <<>>
    /\ si = 0
    /\ libraries = <<>>
    /\ li = 0
    /\ stack = <<>>
    /\ rootKind \in {"absent", "dir", "file"}
    /\ rootContent = <<>>
    /\ failures = 0
    /\ attempted = <<>>
    /\ libsSynced = <<>>
    /\ trace = <<>>

\* A remote call made outside the walk: get_graph_token, then one GET.
\* Its outcome is "raised" or "ok".
RemoteCall(outcome) ==
    \E endpointOk \in BOOLEAN, reqOk \in BOOLEAN :
        LET t == get_graph_token(token_cache, now, endpointOk) IN
        /\ failures + TokenFault(t) + RequestFault(t.token, reqOk) <= MaxFailures
        /\ t.raised => reqOk
        /\ failures' = failures + TokenFault(t) + RequestFault(t.token, reqOk)
        /\ token_cache' = t.cache
        /\ tcall' = [at |-> now, before |-> token_cache, raised |-> t.raised,
                     token |-> t.token, posted |-> t.posted]
        /\ outcome = IF t.raised THEN "token_raised"
                     ELSE IF RequestFails(t.token, reqOk) THEN "request_failed"
                     ELSE "ok"

\* sync_all_sites, lines 476-486: discover_all_sites. An exception here is
\* caught by the __main__ block only.
Discover ==
    /\ pc = "start"
    /\ \E outcome \in {"token_raised", "request_failed", "ok"}, n \in 0..MaxSites :
        /\ RemoteCall(outcome)
        /\ outcome # "ok" => n = 0
        /\ sites' = [i \in 1..n |-> i]
        /\ pc' = IF outcome # "ok" THEN "crashed"
                 ELSE IF n = 0 THEN "nosites" ELSE "site_info"
        /\ si' = IF outcome = "ok" /\ n > 0 THEN 1 ELSE 0
    /\ UNCHANGED <<now, ticks, permVars, tree, libraries, li, stack, rootKind,
                   rootContent, attempted, libsSynced, trace>>

\* sync_site, lines 431-437: get_site_info, called inside the try of
\* sync_all_sites.
GetSiteInfo ==
    /\ pc = "site_info"
    /\ attempted' = Append(attempted, sites[si])
    /\ \E outcome \in {"token_raised", "request_failed", "ok"} :
        /\ RemoteCall(outcome)
        /\ IF outcome = "ok"
           THEN Goto([pc |-> "libraries", si |-> si, li |-> 0])
           ELSE Goto(sync_all_sites_except)
    /\ UNCHANGED <<now, ticks, permVars, tree, sites, stack, rootKind,
                   rootContent, libsSynced, trace>>

\* sync_site, lines 439-448: get_all_document_libraries (its token is fetched
\* outside its try, its GET inside), then the "no libraries" return.
GetLibraries ==
    /\ pc = "libraries"
    /\ \E outcome \in {"token_raised", "request_failed", "ok"} :
        /\ RemoteCall(outcome)
        /\ pc' = IF outcome = "ok" THEN "library"
                 ELSE IF outcome = "token_raised" THEN sync_all_sites_except.pc
                 ELSE SiteLoopNext.pc
        /\ si' = IF outcome = "ok" THEN si
                 ELSE IF outcome = "token_raised" THEN sync_all_sites_except.si
                 ELSE SiteLoopNext.si
        /\ li' = IF outcome = "ok" THEN 1 ELSE 0
        /\ libraries' = IF outcome = "ok" THEN [i \in 1..MaxLibs |-> i] ELSE <<>>
    /\ UNCHANGED <<now, ticks, permVars, tree, sites, stack, rootKind,
                   rootContent, attempted, libsSynced, trace>>

\* sync_site, lines 451-467: the walk of one library starts at its root.
SyncLibrary ==
    /\ pc = "library"
    /\ libsSynced' = Append(libsSynced, <<sites[si], libraries[li]>>)
    /\ EnterFolder(<<>>, "root", <<>>, <<>>)
    /\ UNCHANGED <<now, ticks, permVars, tree, sites, rootKind, rootContent,
                   attempted>>

\* sync_library_children, lines 379-382: the current item is a folder.
VisitFolder ==
    /\ pc = "walk"
    /\ LET top == stack[Len(stack)]
           item == top.items[top.idx]
       IN /\ IsFolder(item)
          /\ EnterFolder(stack, item, CurrentPath(top.relative_path, item), trace)
    /\ UNCHANGED <<now, ticks, permVars, tree, sites, rootKind, rootContent,
                   attempted, libsSynced>>

\* sync_library_children, lines 385-397: the current item is a file.
ProcessFile ==
    /\ pc = "walk"
    /\ LET top == stack[Len(stack)]
           item == top.items[top.idx]
       IN /\ ~IsFolder(item)
          /\ \E fetchOk \in BOOLEAN, textOk \in BOOLEAN, writeOk \in BOOLEAN :
               LET faults == UploadFaults(top.headers, rootKind, fetchOk, textOk, writeOk)
                   u == uploadData(item, CurrentPath(top.relative_path, item),
                                   top.headers, rootKind, rootContent,
                                   fetchOk, textOk, writeOk)
               IN /\ failures + faults <= MaxFailures
                  /\ failures' = failures + faults
                  /\ rootKind' = u.kind
                  /\ rootContent' = u.content
                  /\ trace' = Append(trace, Event("file", item, u.res, u.at))
                  /\ IF u.res \in {"fetch_failed", "write_failed"}
                     THEN WalkRaises
                     ELSE WalkContinues(NextItem(stack))
    /\ UNCHANGED <<tokenVars, permVars, tree, sites, attempted, libsSynced>>

\* Time passes while the run is under way.
WalkTick ==
    /\ Running
    /\ ticks < MaxWalkTicks
    /\ \E d \in {CacheUnits, LifetimeUnits} : now' = now + d
    /\ ticks' = ticks + 1
    /\ UNCHANGED <<token_cache, tcall, permVars, walkVars>>

Next ==
    \/ Discover
    \/ GetSiteInfo
    \/ GetLibraries
    \/ SyncLibrary
    \/ VisitFolder
    \/ ProcessFile
    \/ WalkTick

Spec == Init /\ [][Next]_vars

---------------------------------------------------------------------------
(* Specifications of the token cache alone                                 *)

\* Module load: the cache is empty; the permission normaliser is not running.
InitToken ==
    /\ now = 0
    /\ ticks = 0
    /\ token_cache = EmptyCache
    /\ tcall = NoCall
    /\ permissions = <<>>
    /\ policy = NoPolicy
    /\ pc = "idle"
    /\ tree = [folders |-> {}, children |-> <<>>]
    /\ sites = <<>>
    /\ si = 0
    /\ libraries = <<>>
    /\ li = 0
    /\ stack = <<>>
    /\ rootKind = "absent"
    /\ rootContent = <<>>
    /\ failures = 0
    /\ attempted = <<>>
    /\ libsSynced = <<>>
    /\ trace = <<>>

TokenTick == Tick /\ UNCHANGED <<permVars, walkVars>>

TokenCall == CallGetToken /\ UNCHANGED <<permVars, walkVars>>

TokenNext == TokenTick \/ TokenCall

SpecToken == InitToken /\ [][TokenNext]_vars

---------------------------------------------------------------------------
(* Claims about the token cache (SpecToken)                                *)

\* Age, at the last call, of the token that call returned.
ReturnedTokenAge == tcall.at - tcall.token

---------------------------------------------------------------------------
(* Claims about get_file_permissions (SpecPerm)                            *)

\* The grant list was fetched and parsed without an exception.
Resolved == policy.called /\ policy.fetched /\ ~policy.result.permissionError

Range(xs) == {xs[i] : i \in 1..Len(xs)}

NoDuplicates(xs) == \A i, j \in 1..Len(xs) : xs[i] = xs[j] => i = j

PermissionIndexes == 1..Len(permissions)

\* C6: for a grant list fetched and parsed without error, isPublicWithinOrg
\* is true exactly when some grant is a link of scope anonymous or
\* organization, and hasInheritedPermissions exactly when the list is empty or
\* some grant (link grants included) carries an inheritance source; the empty
\* list gives empty sets, inherited = true, public = false.
C6_PolicyFlags ==
    Resolved =>
        /\ policy.result.isPublicWithinOrg <=>
              \E i \in PermissionIndexes : permissions[i].link \in {"anonymous", "organization"}
        /\ policy.result.hasInheritedPermissions <=>
              (permissions = <<>> \/ \E i \in PermissionIndexes : permissions[i].inherited = "set")
        /\ permissions = <<>> =>
              /\ policy.result.allowedUsers = <<>>
              /\ policy.result.allowedGroups = <<>>
              /\ policy.result.hasInheritedPermissions
              /\ ~policy.result.isPublicWithinOrg

\* C6 witness: a resolved list holding an organization link that carries the
\* only inheritance source, next to a user grant.
C6_Witness ==
    /\ Resolved
    /\ Len(permissions) = 2
    /\ permissions[1].link = "organization" /\ permissions[1].inherited = "set"
    /\ permissions[2].link = "absent" /\ permissions[2].inherited = "absent"
    /\ policy.result.isPublicWithinOrg /\ policy.result.hasInheritedPermissions
    /\ policy.result.allowedUsers # <<>>

\* The grants that are not links of scope anonymous / organization.
PrincipalIndexes ==
    {i \in PermissionIndexes : permissions[i].link \notin {"anonymous", "organization"}}

UserEmails(ids) == {Lower(g.email) : g \in {h \in ids : h.present /\ h.user /\ h.email # NoStr}}

GroupIdentifiers(ids) ==
    {g.gid : g \in {h \in ids : h.present /\ h.group /\ h.gid # NoStr}}
    \cup {Lower(g.gemail) : g \in {h \in ids : h.present /\ h.group /\ h.gemail # NoStr}}

\* C7 (as stated): allowedUserIds is the duplicate-free set of lower-cased
\* user emails and allowedGroupIds that of group ids and lower-cased group
\* emails of every principal grant, in the current or in the legacy shape;
\* anonymous / organization links contribute nothing.
C7_BothShapesGiveUsersAndGroups ==
    Resolved =>
        LET ids == {permissions[i].v2 : i \in PrincipalIndexes}
                   \cup {permissions[i].legacy : i \in PrincipalIndexes}
        IN /\ NoDuplicates(policy.result.allowedUsers)
           /\ NoDuplicates(policy.result.allowedGroups)
           /\ Range(policy.result.allowedUsers) = UserEmails(ids)
           /\ Range(policy.result.allowedGroups) = GroupIdentifiers(ids)

\* C7 (amended): the identifier lists hold no duplicates; allowedUserIds is
\* the set of non-empty lower-cased user emails of the current-shape
\* (grantedToV2) entry of every grant that is not an anonymous / organization
\* link, and of the legacy (grantedTo) entry of those such grants that have no
\* current-shape entry; allowedGroupIds is the set of non-empty group ids and
\* lower-cased group emails of the current-shape entries only.
C7_IdentifierSets ==
    Resolved =>
        LET current == {permissions[i].v2 : i \in PrincipalIndexes}
            legacy == {permissions[i].legacy :
                         i \in {j \in PrincipalIndexes : ~permissions[j].v2.present}}
        IN /\ NoDuplicates(policy.result.allowedUsers)
           /\ NoDuplicates(policy.result.allowedGroups)
           /\ Range(policy.result.allowedUsers) = UserEmails(current \cup legacy)
           /\ Range(policy.result.allowedGroups) = GroupIdentifiers(current)

\* C7 witness: two grants naming the same user up to letter case, resolved
\* into a single identifier.
C7_Witness ==
    /\ Resolved
    /\ Len(permissions) = 2
    /\ permissions[1].v2.present /\ permissions[1].v2.email = EmailA
    /\ permissions[2].v2.present /\ permissions[2].v2.email = Emaila
    /\ policy.result.allowedUsers = <<Emaila>>

\* C8: permission resolution never raises to its caller; on any error while
\* fetching or parsing the grant list it returns the fail-open default (empty
\* sets, inherited = true, public = false) with the error text.
C8_NeverRaisesFailOpen ==
    policy.called =>
        /\ ~policy.result.raised
        /\ ~Resolved =>
              /\ policy.result.permissionError
              /\ policy.result.allowedUsers = <<>>
              /\ policy.result.allowedGroups = <<>>
              /\ policy.result.hasInheritedPermissions
              /\ ~policy.result.isPublicWithinOrg

---------------------------------------------------------------------------
(* Claims about the walk (Spec)                                            *)

\* One step of the program (the clock aside).
ProgramStep ==
    Discover \/ GetSiteInfo \/ GetLibraries \/ SyncLibrary \/ VisitFolder \/ ProcessFile

\* The walk of the library last started has ended; trace is its history.
PassOver == pc # "walk" /\ trace # <<>>

\* The <<site, library>> of the walk trace belongs to.
PassLibrary == libsSynced[Len(libsSynced)]

TraceIndexes == 1..Len(trace)

TreeNodes == tree.folders \cup UNION {Range(tree.children[d]) : d \in tree.folders}

TreeFiles == TreeNodes \ tree.folders

\* The folder whose listing holds node n.
Parent(n) == CHOOSE d \in tree.folders : n \in Range(tree.children[d])

\* The document path of node n: the names from the library root down to n.
RECURSIVE PathTo(_)
PathTo(n) == IF n = "root" THEN <<>> ELSE Append(PathTo(Parent(n)), n)

\* The folders above node n, the library root included.
Ancestors(n) ==
    IF n = "root" THEN {}
    ELSE {"root"} \cup {PathTo(n)[i] : i \in 1..(Len(PathTo(n)) - 1)}

Visited(n) == \E i \in TraceIndexes : trace[i].node = n

WrittenResults == {"written", "written_notext"}

\* The nodes of the subtree of n, depth-first in listing order.
RECURSIVE Preorder(_), PreorderAll(_)
Preorder(n) ==
    IF n \in tree.folders THEN <<n>> \o PreorderAll(tree.children[n]) ELSE <<n>>
PreorderAll(ns) ==
    IF ns = <<>> THEN <<>> ELSE Preorder(Head(ns)) \o PreorderAll(Tail(ns))

\* C1: a content-fetch or extraction failure of one file is contained at that
\* file: in a walk whose only failures are of these two kinds, every file of
\* the library is still processed.
C1_FileFailureContained ==
    (PassOver /\ \A i \in TraceIndexes :
                    trace[i].res \in {"ok", "fetch_failed"} \cup WrittenResults)
    => \A f \in TreeFiles : Visited(f)

\* C2: a failed children listing skips that folder's subtree and nothing else:
\* in a walk whose only failures are listing failures, a node is visited
\* (a folder's listing requested, a file written) exactly when no folder above
\* it failed to list, and no node is visited twice.
C2_ListingFailureSkipsSubtreeOnly ==
    (PassOver /\ \A i \in TraceIndexes :
                    \/ trace[i].res \in {"ok"} \cup WrittenResults
                    \/ trace[i].op = "list" /\ trace[i].res = "failed")
    => LET failed == {trace[i].node : i \in {j \in TraceIndexes : trace[j].res = "failed"}}
       IN /\ \A n \in TreeNodes : Visited(n) <=> Ancestors(n) \cap failed = {}
          /\ \A i, j \in TraceIndexes : trace[i].node = trace[j].node => i = j

\* C2 witness: of three sibling sub-folders the second failed to list, and the
\* files of the first and the third were written.
C2_Witness ==
    /\ PassOver
    /\ tree = TreeA
    /\ \E i \in TraceIndexes : trace[i] = Event("list", "d2", "failed", <<>>)
    /\ \E i \in TraceIndexes : trace[i].node = "f1" /\ trace[i].res = "written"
    /\ \E i \in TraceIndexes : trace[i].node = "f3" /\ trace[i].res = "written"
    /\ ~Visited("f2")

\* Progress of sync_all_sites: grows with every step of the program.
SitePhase ==
    CASE pc = "site_info" -> 1
      [] pc = "libraries" -> 2
      [] pc = "library" -> 3
      [] pc = "walk" -> 4
      [] OTHER -> 0

RunMeasure == <<si, li, SitePhase, IF pc = "walk" THEN Len(trace) ELSE 0>>

LexLess(a, b) ==
    \E k \in 1..Len(a) : a[k] < b[k] /\ \A j \in 1..(k - 1) : a[j] = b[j]

\* C3: whatever fails while one site is synced, sync_all_sites attempts every
\* site of its list exactly once, in list order, and reaches its completion
\* point: the sites attempted are always a prefix of the list and the whole
\* list at the end; no exception leaves the loop; until the end a step of the
\* program is always possible, and every step advances the run.
C3_EverySiteAttempted ==
    /\ [](/\ Len(attempted) <= Len(sites)
          /\ attempted = SubSeq(sites, 1, Len(attempted))
          /\ (pc = "done" => attempted = sites)
          /\ (pc \in {"site_info", "libraries", "library", "walk"} =>
                Len(attempted) = IF pc = "site_info" THEN si - 1 ELSE si)
          /\ (pc = "crashed" => sites = <<>>)
          /\ (Running => ENABLED ProgramStep))
    /\ [][(pc \in {"site_info", "libraries", "library", "walk"} /\ ~UNCHANGED walkVars)
            => (pc' \in {"site_info", "libraries", "library", "walk", "done"}
                /\ LexLess(RunMeasure, RunMeasure'))]_vars

\* C3 witness: the run completed although the sync of the first site failed
\* before any library was walked.
C3_Witness ==
    /\ pc = "done"
    /\ Len(sites) = MaxSites
    /\ libsSynced # <<>>
    /\ libsSynced[1][1] # sites[1]

\* C4: every file whose content fetch succeeds gets exactly one record, written
\* at a location derived from its document path, so two files of a walk are
\* written to two locations.
C4_OneRecordPerFileAtItsPath ==
    /\ \A i \in TraceIndexes :
         (trace[i].op = "file" /\ trace[i].res # "fetch_failed") =>
            /\ trace[i].res \in WrittenResults
            /\ trace[i].at = MetaBlobPath(PassLibrary[1], PassLibrary[2],
                                          PathTo(trace[i].node))
    /\ \A i, j \in TraceIndexes :
         (trace[i].res \in WrittenResults /\ trace[j].res \in WrittenResults
          /\ trace[i].at = trace[j].at) => i = j

\* The libraries walked for site s, in order.
RECURSIVE LibrariesSynced(_, _)
LibrariesSynced(log, s) ==
    IF log = <<>> THEN <<>>
    ELSE IF Head(log)[1] = s
         THEN <<Head(log)[2]>> \o LibrariesSynced(Tail(log), s)
         ELSE LibrariesSynced(Tail(log), s)

\* Site s is no longer being synced.
SiteFinished(s) == pc \in {"done", "crashed", "nosites"} \/ (si > 0 /\ s < sites[si])

\* C5: a sink write failure ends the walk of the enclosing library (it is the
\* last event of that walk, which leaves no call active) and ends only that:
\* the loop of sync_site goes on with the next library, and every site whose
\* libraries were enumerated has all of them walked, in order.
C5_WriteFailureEndsLibraryOnly ==
    /\ \A i \in TraceIndexes :
         trace[i].res = "write_failed" =>
            /\ i = Len(trace)
            /\ pc \in {"library", "site_info", "libraries", "done"}
            /\ stack = <<>>
            /\ (pc = "library" /\ sites[si] = PassLibrary[1]) => libraries[li] = PassLibrary[2] + 1
            /\ PassLibrary[2] < MaxLibs => (pc = "library" /\ sites[si] = PassLibrary[1])
    /\ \A k \in 1..Len(sites) :
         LET walked == LibrariesSynced(libsSynced, sites[k]) IN
         /\ walked = [i \in 1..Len(walked) |-> i]
         /\ SiteFinished(sites[k]) => Len(walked) \in {0, MaxLibs}

\* C5 witness: the write of a file failed on a writable-looking sink, in the
\* first library of a site, and the next library of that site is up next.
C5_Witness ==
    /\ trace # <<>>
    /\ trace[Len(trace)].res = "write_failed"
    /\ Len(trace) > 2
    /\ rootKind = "file"
    /\ PassLibrary[2] = 1
    /\ pc = "library" /\ libraries[li] = 2

\* C10: in a walk where no remote call and no write fails, the requests and
\* files follow the depth-first listing order of the tree: at every moment the
\* nodes visited are an initial part of that order (so a folder's subtree is
\* finished before its next sibling is touched, and no node comes twice), a
\* folder is visited by a listing request and a file by a write; the finished
\* walk has visited them all; and the walk terminates: while it runs a step is
\* possible, and each step visits one more node.
C10_DepthFirstOnce ==
    /\ []((trace # <<>> /\ \A i \in TraceIndexes : trace[i].res \in {"ok"} \cup WrittenResults)
          => /\ Len(trace) <= Len(Preorder("root"))
             /\ \A i \in TraceIndexes :
                  /\ trace[i].node = Preorder("root")[i]
                  /\ trace[i].op = IF trace[i].node \in tree.folders THEN "list" ELSE "file"
             /\ PassOver => Len(trace) = Len(Preorder("root")))
    /\ [](pc = "walk" => ENABLED (VisitFolder \/ ProcessFile))
    /\ [][(pc = "walk" /\ pc' = "walk" /\ ~UNCHANGED walkVars)
            => Len(trace') = Len(trace) + 1]_vars

\* C10 witness: the walk of the nested tree ended without a failure, its last
\* file written after the return from two levels of sub-folders.
C10_Witness ==
    /\ PassOver
    /\ tree = TreeB
    /\ Len(trace) = 7
    /\ \A i \in TraceIndexes : trace[i].res \in {"ok"} \cup WrittenResults
    /\ trace[7].node = "f4"

\* A step of the walk sends a remote request: a children listing (SyncLibrary,
\* VisitFolder) or a file content fetch (ProcessFile).
WalkRequestSent ==
    /\ pc \in {"library", "walk"}
    /\ trace' # trace
    /\ trace'[Len(trace')].op \in {"list", "file"}

\* The token in the Authorization header of that request: a listing carries
\* the token get_graph_token has just returned (line 365), a content fetch the
\* headers of the enclosing call (lines 397, 409).
CarriedToken ==
    IF trace'[Len(trace')].op = "file"
    THEN stack[Len(stack)].headers
    ELSE tcall'.token

\* C11: every remote request of a walk (folder listing or file content fetch)
\* carries a token the token cache still considers valid when the request is
\* sent, that is, one acquired less than 3300 seconds before.
C11_RequestsCarryValidToken ==
    [][WalkRequestSent =>
         /\ CarriedToken = token_cache'.token
         /\ CacheValid(token_cache', now)
         /\ now - CarriedToken < CacheSeconds * UnitsPerSec]_vars

====
